---- MODULE Spec2Model ----
(***************************************************************************)
(* Model of app/api.py: a FastAPI application object with two GET routes,  *)
(* "/" (home) and "/api/health" (health_check).                            *)
(*                                                                         *)
(* The state is the application's route table, the requests the server is  *)
(* handling at the moment (one slot each), the dict objects the handlers   *)
(* have returned and that are still referenced, and a history of the first *)
(* response delivered for each of the two endpoints.                       *)
(*                                                                         *)
(* A request goes through the steps the framework runs for it: it is       *)
(* received, the router matches it against the route table, the matched    *)
(* endpoint function is called (a plain "def", so in a worker thread),     *)
(* its return value is rendered as a JSON response, and the response is    *)
(* delivered.  Steps of different requests interleave freely.              *)
(***************************************************************************)
EXTENDS Integers, Sequences, FiniteSets, TLC

\* Number of requests the server handles at the same time.
MaxReq == 2

Slots == 1..MaxReq
ObjIds == 1..MaxReq

NoObj == 0
Null == [status |-> 0, body |-> << >>]
NoReq == [method |-> "", path |-> << >>, headers |-> "", body |-> ""]

----------------------------------------------------------------------------
(* Requests the clients send. *)

\* A path is the sequence of its "/" separators and its segments.
Root == <<"/">>
ApiHealth == <<"/", "api", "/", "health">>
ApiHealthSlash == <<"/", "api", "/", "health", "/">>
OpenapiJson == <<"/", "openapi.json">>
Docs == <<"/", "docs">>
DocsRedirect == <<"/", "docs", "/", "oauth2-redirect">>
Redoc == <<"/", "redoc">>
Nope == <<"/", "nope">>

Paths == {Root, ApiHealth, ApiHealthSlash, OpenapiJson, Docs, DocsRedirect,
          Redoc, Nope}

Req(m, p, h, b) == [method |-> m, path |-> p, headers |-> h, body |-> b]

\* A GET of every path; the other methods on the application's paths; and
\* request lines repeated with an extra header or with a body.
Requests ==
    {Req("GET", p, "", "") : p \in Paths}
    \cup {Req("POST", p, "", "") : p \in {Root, ApiHealth}}
    \cup {Req("HEAD", p, "", "") : p \in {Root}}
    \cup {Req("GET", Root, "X-Trace: 1", ""),
          Req("GET", ApiHealth, "", "{\"status\": \"down\"}"),
          Req("POST", ApiHealth, "", "{\"status\": \"down\"}")}

\* The requests of the liveness specification: one of each outcome.
LiveRequests ==
    {r \in Requests :
        /\ r.headers = "" /\ r.body = ""
        /\ <<r.method, r.path>> \in
             {<<"GET", Root>>, <<"GET", ApiHealth>>, <<"POST", Root>>,
              <<"GET", ApiHealthSlash>>, <<"GET", Docs>>, <<"GET", Nope>>}}

----------------------------------------------------------------------------
(* The route table. *)

\* FastAPI() with no arguments: setup() registers the documentation routes
\* with add_route, which answers GET and HEAD.
FrameworkRoutes ==
    << [path |-> OpenapiJson, methods |-> {"GET", "HEAD"}, endpoint |-> "openapi"],
       [path |-> Docs, methods |-> {"GET", "HEAD"}, endpoint |-> "swagger_ui_html"],
       [path |-> DocsRedirect, methods |-> {"GET", "HEAD"},
        endpoint |-> "swagger_ui_redirect"],
       [path |-> Redoc, methods |-> {"GET", "HEAD"}, endpoint |-> "redoc_html"] >>

\* The methods of a route registered with @app.get: GET only (an APIRoute
\* does not add HEAD).
get_methods_with_post == {"GET", "POST"}
get_methods == {"GET"}

\* The route table after the module is imported: app = FastAPI(), then the
\* two decorators in order.
AppRoutes ==
    << [path |-> Root, methods |-> get_methods, endpoint |-> "home"],
       [path |-> ApiHealth, methods |-> get_methods, endpoint |-> "health_check"] >>

InitialRoutes == FrameworkRoutes \o AppRoutes

\* The exception handlers the application registers: none.
exception_handlers == [c \in {} |-> << >>]

----------------------------------------------------------------------------
(* The endpoint functions.  A Python dict is a sequence of <<key, value>>. *)

\* routes     app.router.routes
\* clients    the requests the clients may send
\* slots      the requests being handled, each with its step
\* heap       the dicts returned by the endpoint functions and still referenced
\* firstResp  the first response delivered for GET "/" and GET "/api/health"
VARIABLES routes, clients, slots, heap, firstResp

vars == <<routes, clients, slots, heap, firstResp>>

home_typo == << <<"msg", "Welcome to my api.">> >>
home_stateful ==
    IF firstResp[Root] = Null
    THEN << <<"msgs", "Welcome to my api.">> >>
    ELSE << <<"msgs", "Welcome back to my api.">> >>
home_shared ==
    IF \E t \in Slots : slots[t].stage = "returned"
    THEN << <<"msgs", "busy">> >>
    ELSE << <<"msgs", "Welcome to my api.">> >>
home == << <<"msgs", "Welcome to my api.">> >>

health_check_typo == << <<"status", "healty">> >>
health_check == << <<"status", "healthy">> >>

AppEndpoints == {"home", "health_check"}

EndpointResult(e) == IF e = "home" THEN home ELSE health_check

----------------------------------------------------------------------------
(* Rendering and parsing of JSON bodies, as sequences of tokens. *)

Punct(c) == [k |-> "punct", v |-> c]
Str(s) == [k |-> "string", v |-> s]
Raw(s) == [k |-> "raw", v |-> s]

RECURSIVE RenderItems(_)
RenderItems(d) ==
    IF d = << >> THEN << >>
    ELSE << Str(d[1][1]), Punct(":"), Str(d[1][2]) >>
         \o (IF Len(d) > 1 THEN << Punct(",") >> ELSE << >>)
         \o RenderItems(Tail(d))

\* JSONResponse.render: json.dumps with separators (",", ":").
render(d) == << Punct("{") >> \o RenderItems(d) \o << Punct("}") >>

\* What a client's JSON parser makes of a body: the mapping from keys to
\* values, or the empty mapping when the body is no JSON object.
RECURSIVE ParseItems(_, _)
ParseItems(toks, acc) ==
    IF Len(toks) >= 3 /\ toks[1].k = "string" /\ toks[2] = Punct(":")
       /\ toks[3].k = "string"
    THEN LET acc2 == [x \in DOMAIN acc \cup {toks[1].v} |->
                        IF x = toks[1].v THEN toks[3].v ELSE acc[x]]
             rest == SubSeq(toks, 4, Len(toks))
         IN IF rest # << >> /\ rest[1] = Punct(",")
            THEN ParseItems(Tail(rest), acc2)
            ELSE acc2
    ELSE acc

json_loads(b) ==
    IF Len(b) >= 2 /\ b[1] = Punct("{") /\ b[Len(b)] = Punct("}")
    THEN ParseItems(SubSeq(b, 2, Len(b) - 1), [x \in {} |-> ""])
    ELSE [x \in {} |-> ""]

----------------------------------------------------------------------------
(* The router. *)

\* Route.matches: the path regex of a route without parameters matches the
\* identical path only; a matching path with a method outside the route's
\* methods is a partial match.  The match reads the method and the path of
\* the request scope.
Match_lenient_slash(route, req) ==
    IF route.path = req.path \/ Append(route.path, "/") = req.path
    THEN IF req.method \in route.methods THEN "FULL" ELSE "PARTIAL"
    ELSE "NONE"
Match_no_partial(route, req) ==
    IF route.path = req.path /\ req.method \in route.methods
    THEN "FULL"
    ELSE "NONE"
Match_needs_empty_body(route, req) ==
    IF route.path = req.path /\ req.body = ""
    THEN IF req.method \in route.methods THEN "FULL" ELSE "PARTIAL"
    ELSE "NONE"
Match(route, req) ==
    IF route.path = req.path
    THEN IF req.method \in route.methods THEN "FULL" ELSE "PARTIAL"
    ELSE "NONE"

\* The first route of the table with the given kind of match, or 0.
FirstMatch(rs, req, kind) ==
    LET hits == {i \in 1..Len(rs) : Match(rs[i], req) = kind}
    IN IF hits = {} THEN 0 ELSE CHOOSE i \in hits : \A j \in hits : i <= j

\* str.rstrip("/")
RECURSIVE rstrip(_)
rstrip(p) ==
    IF p # << >> /\ p[Len(p)] = "/" THEN rstrip(SubSeq(p, 1, Len(p) - 1)) ELSE p

\* Router.app, redirect_slashes: the path with its trailing slashes removed,
\* or with one added.
RedirectPath(p) ==
    IF p # << >> /\ p[Len(p)] = "/" THEN rstrip(p) ELSE Append(p, "/")

RedirectMatches(rs, req) ==
    /\ req.path # Root
    /\ \E i \in 1..Len(rs) :
          Match(rs[i], [req EXCEPT !.path = RedirectPath(req.path)]) # "NONE"

\* The body of an error response: the application's handler for the status
\* when it registered one, else the framework's {"detail": <phrase>}.
ErrorBody(status, phrase) ==
    IF status \in DOMAIN exception_handlers
    THEN exception_handlers[status]
    ELSE render(<< <<"detail", phrase>> >>)

NotFound == [status |-> 404, body |-> ErrorBody(404, "Not Found")]
MethodNotAllowed == [status |-> 405, body |-> ErrorBody(405, "Method Not Allowed")]
TemporaryRedirect == [status |-> 307, body |-> << >>]

----------------------------------------------------------------------------
(* The steps of a request. *)

FreeSlot == [stage |-> "free", req |-> NoReq, endpoint |-> "", obj |-> NoObj,
             resp |-> Null]

Answer(s, resp) ==
    slots' = [slots EXCEPT ![s].stage = "answered", ![s].resp = resp,
                           ![s].obj = NoObj]

\* The server accepts a request in the lowest free slot.
Receive(s, r) ==
    /\ slots[s].stage = "free"
    /\ \A t \in Slots : t < s => slots[t].stage # "free"
    /\ slots' = [slots EXCEPT ![s] = [FreeSlot EXCEPT !.stage = "received", !.req = r]]
    /\ UNCHANGED <<routes, clients, heap, firstResp>>

\* Router.app: the first full match is handled by its route.
RouteFull(s) ==
    /\ slots[s].stage = "received"
    /\ FirstMatch(routes, slots[s].req, "FULL") # 0
    /\ slots' = [slots EXCEPT
                   ![s].stage = "matched",
                   ![s].endpoint = routes[FirstMatch(routes, slots[s].req, "FULL")].endpoint]
    /\ UNCHANGED <<routes, clients, heap, firstResp>>

\* Router.app: with no full match, the first partial match is handled by its
\* route, which answers 405 for a method it does not have.
RoutePartial(s) ==
    /\ slots[s].stage = "received"
    /\ FirstMatch(routes, slots[s].req, "FULL") = 0
    /\ FirstMatch(routes, slots[s].req, "PARTIAL") # 0
    /\ Answer(s, MethodNotAllowed)
    /\ UNCHANGED <<routes, clients, heap, firstResp>>

\* Router.app: with no match, a path that matches a route once a trailing
\* slash is removed or added is redirected there.
RouteRedirect(s) ==
    /\ slots[s].stage = "received"
    /\ FirstMatch(routes, slots[s].req, "FULL") = 0
    /\ FirstMatch(routes, slots[s].req, "PARTIAL") = 0
    /\ RedirectMatches(routes, slots[s].req)
    /\ Answer(s, TemporaryRedirect)
    /\ UNCHANGED <<routes, clients, heap, firstResp>>

\* Router.app: anything else is the default 404.
RouteNotFound(s) ==
    /\ slots[s].stage = "received"
    /\ FirstMatch(routes, slots[s].req, "FULL") = 0
    /\ FirstMatch(routes, slots[s].req, "PARTIAL") = 0
    /\ ~RedirectMatches(routes, slots[s].req)
    /\ Answer(s, NotFound)
    /\ UNCHANGED <<routes, clients, heap, firstResp>>

\* The dict literal of a return statement is a new object: an identity no
\* live object has.
NewObject_shared == CHOOSE i \in ObjIds : \A j \in ObjIds : i <= j
NewObject == CHOOSE i \in ObjIds \ DOMAIN heap : \A j \in ObjIds \ DOMAIN heap : i <= j

\* home and health_check have no await, lock or wait: a matched request can
\* run its endpoint function whatever the other requests do.
CanRun_waiting(s) ==
    /\ slots[s].stage = "matched"
    /\ \A t \in Slots \ {s} : slots[t].stage \notin {"received", "matched"}
CanRun(s) == slots[s].stage = "matched"

\* The endpoint function of the application runs and returns its dict.
CallApp(s) ==
    /\ CanRun(s)
    /\ slots[s].endpoint \in AppEndpoints
    /\ heap' = [i \in DOMAIN heap \cup {NewObject} |->
                  IF i = NewObject THEN EndpointResult(slots[s].endpoint) ELSE heap[i]]
    /\ slots' = [slots EXCEPT ![s].stage = "returned", ![s].obj = NewObject]
    /\ UNCHANGED <<routes, clients, firstResp>>

\* A documentation endpoint of the framework answers 200 itself.
CallFramework(s) ==
    /\ slots[s].stage = "matched"
    /\ slots[s].endpoint \notin AppEndpoints
    /\ Answer(s, [status |-> 200,
                  body |-> IF slots[s].req.method = "HEAD" THEN << >>
                           ELSE << Raw(slots[s].endpoint) >>])
    /\ UNCHANGED <<routes, clients, heap, firstResp>>

\* The returned dict is rendered as a JSON response with status 200; the
\* dict is released unless another request refers to it.
Serialize(s) ==
    /\ slots[s].stage = "returned"
    /\ Answer(s, [status |-> 200, body |-> render(heap[slots[s].obj])])
    /\ heap' = IF \E t \in Slots \ {s} : slots[t].obj = slots[s].obj
               THEN heap
               ELSE [i \in DOMAIN heap \ {slots[s].obj} |-> heap[i]]
    /\ UNCHANGED <<routes, clients, firstResp>>

\* The response is sent and the request is over.
Deliver(s) ==
    /\ slots[s].stage = "answered"
    /\ slots' = [slots EXCEPT ![s] = FreeSlot]
    /\ firstResp' =
         IF /\ slots[s].req.method = "GET"
            /\ slots[s].req.path \in DOMAIN firstResp
            /\ firstResp[slots[s].req.path] = Null
         THEN [firstResp EXCEPT ![slots[s].req.path] = slots[s].resp]
         ELSE firstResp
    /\ UNCHANGED <<routes, clients, heap>>

Step(s) ==
    \/ RouteFull(s)
    \/ RoutePartial(s)
    \/ RouteRedirect(s)
    \/ RouteNotFound(s)
    \/ CallApp(s)
    \/ CallFramework(s)
    \/ Serialize(s)
    \/ Deliver(s)

Init ==
    /\ routes = InitialRoutes
    /\ clients = Requests
    /\ slots = [s \in Slots |-> FreeSlot]
    /\ heap = [i \in {} |-> << >>]
    /\ firstResp = [p \in {Root, ApiHealth} |-> Null]

LiveInit ==
    /\ routes = InitialRoutes
    /\ clients = LiveRequests
    /\ slots = [s \in Slots |-> FreeSlot]
    /\ heap = [i \in {} |-> << >>]
    /\ firstResp = [p \in {Root, ApiHealth} |-> Null]

Next ==
    \/ \E s \in Slots, r \in clients : Receive(s, r)
    \/ \E s \in Slots : Step(s)

Spec == Init /\ [][Next]_vars

\* The server runs every request it has accepted: each step of each
\* request is taken if it stays possible.
LiveSpec == LiveInit /\ [][Next]_vars /\ \A s \in Slots : WF_vars(Step(s))

----------------------------------------------------------------------------
(* Properties. *)

Answered(s) == slots[s].stage = "answered"
Line(s, m, p) ==
    slots[s].stage # "free" /\ slots[s].req.method = m /\ slots[s].req.path = p
AnsweredWith(m, p, status) ==
    \E s \in Slots : Answered(s) /\ Line(s, m, p) /\ slots[s].resp.status = status

WelcomeBytes ==
    << Punct("{"), Str("msgs"), Punct(":"), Str("Welcome to my api."), Punct("}") >>
HealthBytes ==
    << Punct("{"), Str("status"), Punct(":"), Str("healthy"), Punct("}") >>

\* C1: every GET of "/" is routed to home and to nothing else, and is
\* answered with status 200 and the JSON body {"msgs": "Welcome to my api."};
\* it has no error outcome.
C1_HomeAlways200 ==
    \A s \in Slots : Line(s, "GET", Root) =>
        /\ slots[s].stage \in {"matched", "returned"} => slots[s].endpoint = "home"
        /\ Answered(s) =>
             /\ slots[s].resp.status = 200
             /\ slots[s].resp.body = WelcomeBytes
             /\ json_loads(slots[s].resp.body) = ("msgs" :> "Welcome to my api.")

C1_Witness == AnsweredWith("GET", Root, 200)

\* C2: every GET of "/api/health" is answered with status 200 and the JSON
\* body {"status": "healthy"}.
C2_HealthAlways200 ==
    \A s \in Slots : Line(s, "GET", ApiHealth) =>
        /\ slots[s].stage \in {"matched", "returned"} => slots[s].endpoint = "health_check"
        /\ Answered(s) =>
             /\ slots[s].resp.status = 200
             /\ slots[s].resp.body = HealthBytes
             /\ json_loads(slots[s].resp.body) = ("status" :> "healthy")

C2_Witness == AnsweredWith("GET", ApiHealth, 200)

\* C3, as claimed: a GET answered with 200 is a GET of "/" or "/api/health".
C3_OnlyTwoPathsAnswer200 ==
    \A s \in Slots :
        (Answered(s) /\ slots[s].req.method = "GET" /\ slots[s].resp.status = 200)
            => slots[s].req.path \in {Root, ApiHealth}

\* C3, amended: a GET answered with 200 is a GET of "/", of "/api/health" or
\* of one of the four documentation paths FastAPI() registers by default
\* ("/openapi.json", "/docs", "/docs/oauth2-redirect", "/redoc"); a GET of
\* any other path is answered with a status other than 200.
C3_Only200PathsWithDocs ==
    \A s \in Slots :
        (Answered(s) /\ slots[s].req.method = "GET") =>
            (slots[s].resp.status = 200
                <=> slots[s].req.path \in
                      {Root, ApiHealth, OpenapiJson, Docs, DocsRedirect, Redoc})

C3_Witness ==
    /\ AnsweredWith("GET", Docs, 200)
    /\ \E s \in Slots :
         /\ Answered(s) /\ slots[s].req.method = "GET"
         /\ slots[s].req.path \in {Nope, ApiHealthSlash}
         /\ slots[s].resp.status # 200

\* C4: a POST of "/" or of "/api/health" is answered with a status other
\* than 200, and neither home nor health_check runs for it: the request is
\* never matched to an endpoint and never holds a returned dict.
C4_PostNot200NoHandler ==
    \A s \in Slots :
        (slots[s].stage # "free" /\ slots[s].req.method = "POST"
         /\ slots[s].req.path \in {Root, ApiHealth}) =>
            /\ slots[s].stage \in {"received", "answered"}
            /\ slots[s].endpoint = ""
            /\ slots[s].obj = NoObj
            /\ Answered(s) => slots[s].resp.status # 200

C4_Witness ==
    \E s \in Slots :
        /\ Answered(s) /\ slots[s].req.method = "POST"
        /\ slots[s].req.path \in {Root, ApiHealth}
        /\ slots[s].req.body # ""

\* C5: once a first GET of an endpoint has been delivered, every later GET
\* of that endpoint is answered with the same status and the same bytes,
\* whatever requests came in between.
C5_SameAsFirst ==
    \A s \in Slots :
        (Answered(s) /\ slots[s].req.method = "GET"
         /\ slots[s].req.path \in DOMAIN firstResp
         /\ firstResp[slots[s].req.path] # Null) =>
            /\ slots[s].resp.status = firstResp[slots[s].req.path].status
            /\ slots[s].resp.body = firstResp[slots[s].req.path].body

C5_Witness ==
    /\ firstResp[Root] # Null
    /\ firstResp[ApiHealth] # Null
    /\ \E s \in Slots : Answered(s) /\ Line(s, "GET", Root) /\ slots[s].req.headers # ""

Registered(p) == \E i \in 1..Len(routes) : routes[i].path = p

\* The path is not "/" and is a registered path followed by slashes, or a
\* registered path less its final slash.
SlashSibling(p) ==
    /\ p # Root
    /\ \E i \in 1..Len(routes) :
         IF p[Len(p)] = "/"
         THEN \E n \in 1..Len(p) : p = routes[i].path \o [k \in 1..n |-> "/"]
         ELSE routes[i].path = Append(p, "/")

DefaultErrors ==
    \A s \in Slots :
        Answered(s) =>
            /\ slots[s].resp.status = 404 =>
                 json_loads(slots[s].resp.body) = ("detail" :> "Not Found")
            /\ slots[s].resp.status = 405 =>
                 json_loads(slots[s].resp.body) = ("detail" :> "Method Not Allowed")
            /\ slots[s].resp.status \in {404, 405} => routes = InitialRoutes

\* C6, as claimed: a request of an unregistered path is answered with 404
\* and a request of "/" or "/api/health" with a method other than GET with
\* 405, with the framework's default error body.
C6_Unmatched404Else405 ==
    /\ \A s \in Slots :
         Answered(s) =>
            /\ ~Registered(slots[s].req.path) => slots[s].resp.status = 404
            /\ (slots[s].req.path \in {Root, ApiHealth} /\ slots[s].req.method # "GET")
                   => slots[s].resp.status = 405
    /\ DefaultErrors

\* C6, amended: a request of an unregistered path is answered with 404,
\* unless the path is not "/" and becomes a registered path when its
\* trailing slashes are removed or one slash is appended: then it is
\* answered with a 307 redirect.  A request of "/" or "/api/health" with a
\* method other than GET is answered with 405.  The error bodies are the
\* framework's defaults and the route table stays as it was.
C6_Unmatched404Or307Else405 ==
    /\ \A s \in Slots :
         Answered(s) =>
            /\ ~Registered(slots[s].req.path) =>
                 slots[s].resp.status =
                    (IF SlashSibling(slots[s].req.path) THEN 307 ELSE 404)
            /\ (slots[s].req.path \in {Root, ApiHealth} /\ slots[s].req.method # "GET")
                   => slots[s].resp.status = 405
    /\ DefaultErrors

C6_Witness ==
    /\ \E s \in Slots : Answered(s) /\ slots[s].req.method # "GET"
                        /\ slots[s].req.path \in {Root, ApiHealth}
                        /\ slots[s].resp.status = 405
    /\ \E s \in Slots : Answered(s) /\ ~Registered(slots[s].req.path)
                        /\ slots[s].resp.status \in {307, 404}

\* The response of a request the server handles with no other request in
\* flight: routing, the endpoint function and rendering, one after the other.
Alone(req) ==
    LET full == FirstMatch(InitialRoutes, req, "FULL")
        e == InitialRoutes[full].endpoint
    IN IF full # 0
       THEN IF e \in AppEndpoints
            THEN [status |-> 200, body |-> render(EndpointResult(e))]
            ELSE [status |-> 200,
                  body |-> IF req.method = "HEAD" THEN << >> ELSE << Raw(e) >>]
       ELSE IF FirstMatch(InitialRoutes, req, "PARTIAL") # 0 THEN MethodNotAllowed
       ELSE IF RedirectMatches(InitialRoutes, req) THEN TemporaryRedirect
       ELSE NotFound

Concurrent(s) == \E t \in Slots \ {s} : slots[t].stage # "free"

\* C7: a request answered while other requests are in flight gets the
\* status and the body it gets when handled alone, and no two requests in
\* flight refer to the same returned object.
C7_SameAsAlone ==
    /\ \A s \in Slots :
         (Answered(s) /\ Concurrent(s)) => slots[s].resp = Alone(slots[s].req)
    /\ \A s, t \in Slots :
         (s # t /\ slots[s].obj # NoObj) => slots[s].obj # slots[t].obj

C7_Witness ==
    \E s, t \in Slots :
        /\ s # t
        /\ Answered(s) /\ Line(s, "GET", Root)
        /\ Answered(t) /\ Line(t, "GET", ApiHealth)

\* C8: two requests with the same method and the same path are answered
\* with the same status and the same body, whatever their headers and
\* bodies.
C8_RequestLineOnly ==
    \A s, t \in Slots :
        (/\ Answered(s) /\ Answered(t)
         /\ slots[s].req.method = slots[t].req.method
         /\ slots[s].req.path = slots[t].req.path) =>
            slots[s].resp = slots[t].resp

C8_Witness ==
    \E s, t \in Slots :
        /\ Answered(s) /\ Answered(t)
        /\ Line(s, "GET", ApiHealth) /\ Line(t, "GET", ApiHealth)
        /\ slots[s].req.body # slots[t].req.body

\* C9: no step of any request changes the route table; every returned
\* dict holds the payload of its endpoint; and the dict an endpoint call
\* returns is a new object, which no other request refers to.
C9_NoStateChange ==
    /\ [][routes' = routes]_vars
    /\ [](\A s \in Slots : slots[s].stage = "returned" =>
            /\ slots[s].obj \in DOMAIN heap
            /\ heap[slots[s].obj] =
                 (IF slots[s].endpoint = "home"
                  THEN << <<"msgs", "Welcome to my api.">> >>
                  ELSE << <<"status", "healthy">> >>))
    /\ [][\A s \in Slots :
            (slots[s].stage = "matched" /\ slots'[s].stage = "returned") =>
                /\ slots'[s].obj \notin DOMAIN heap
                /\ \A t \in Slots \ {s} : slots'[t].obj # slots'[s].obj]_vars

C9_Witness ==
    \E s, t \in Slots :
        /\ s # t
        /\ slots[s].stage = "returned" /\ slots[t].stage = "returned"
        /\ slots[s].endpoint = slots[t].endpoint
        /\ firstResp[Root] # Null

\* C10: a request matched to home or health_check is eventually answered,
\* and an answer, once made, is not replaced: the request ends with it.
C10_EventuallyAnsweredOnce ==
    /\ \A s \in Slots :
         (slots[s].stage = "matched" /\ slots[s].endpoint \in AppEndpoints)
             ~> Answered(s)
    /\ [][\A s \in Slots :
            Answered(s) => (slots'[s] = slots[s] \/ slots'[s] = FreeSlot)]_vars

C10_Witness ==
    \E s, t \in Slots :
        /\ s # t
        /\ slots[s].stage = "matched" /\ slots[s].endpoint = "home"
        /\ slots[t].stage = "matched" /\ slots[t].endpoint = "health_check"

====
